---- MODULE Spec2Model ----
(***************************************************************************)
(* Model of src/trab.py: the GRASP construction for the two-dimensional    *)
(* guillotine cutting-stock problem (PCEBG).                               *)
(*                                                                         *)
(*   criar_faixa     fills one horizontal strip (RCL rule)                 *)
(*   gerar_padrao    stacks strips into one plate                          *)
(*   resolver_pcebg  runs max_iter trials and keeps the best               *)
(*                                                                         *)
(* Every random draw (shuffle, uniform, choice) is a nondeterministic      *)
(* choice.  alpha is a rational num/AlphaDen; a utilization               *)
(* (aproveitamento) is an exact fraction [num, den].                       *)
(***************************************************************************)
EXTENDS Integers, Sequences, FiniteSets

\* ------------------------------------------------------------------ bounds
\* Largest demand of an item of a generated catalog.
MaxDem == 2
\* Largest max_iter of a generated call (the scenario of C10 uses its own).
MaxIter == 2
\* Item widths and heights of generated catalogs range over 1..MaxDim; the
\* generated plate is 3 x 2, so the catalogs hold items that fit and items that
\* are too wide or too tall.
MaxDim == 4

\* alpha = n / AlphaDen
AlphaDen == 10

\* math.inf (melhor_num_placas before the first accepted trial)
inf == -1

\* ------------------------------------------------------------------ Item
\* Item.__init__: area is derived from largura and altura.
Item(id, largura, altura, demanda_total) ==
    [id |-> id, c |-> largura, l |-> altura, d |-> demanda_total,
     area |-> largura * altura]

RECURSIVE SeqSum(_)
SeqSum(s) == IF s = <<>> THEN 0 ELSE Head(s) + SeqSum(Tail(s))

Range(s) == {s[k] : k \in 1..Len(s)}

RECURSIVE SetMax(_)
SetMax(S) == LET e == CHOOSE e \in S : TRUE
             IN IF S = {e} THEN e
                ELSE LET m == SetMax(S \ {e}) IN IF e > m THEN e ELSE m

Min2(a, b) == IF a <= b THEN a ELSE b

\* All orders of a list (random.shuffle may leave any of them).
Permutations(s) ==
    LET n == Len(s)
        Bij == {f \in [1..n -> 1..n] : \A a, b \in 1..n : a # b => f[a] # f[b]}
    IN {[k \in 1..n |-> s[f[k]]] : f \in Bij}

VARIABLES
    itens, C, L, max_iter, alpha_min, alpha_max,    \* arguments of resolver_pcebg
    it,                     \* number of trials already run (the for loop's index)
    demanda, itens_iter, alpha_iter, placas,        \* locals of one trial
    padrao, y,              \* locals of gerar_padrao
    faixa, x_usado,         \* locals of criar_faixa
    melhor_solucao, melhor_num_placas, melhor_aproveitamento,
    pc,                     \* position in the code
    \* history variables (no variable of the code):
    min_placas,             \* fewest plates of a finished trial (inf: none yet)
    primeira_min,           \* plate list of the first trial that had min_placas
    ultima_troca,           \* number of the last trial that became the best
    restante_chamada        \* total remaining demand when gerar_padrao was called

vars == <<itens, C, L, max_iter, alpha_min, alpha_max, it, demanda, itens_iter,
          alpha_iter, placas, padrao, y, faixa, x_usado, melhor_solucao,
          melhor_num_placas, melhor_aproveitamento, pc, min_placas, primeira_min,
          ultima_troca, restante_chamada>>

\* ------------------------------------------------------------ fractions
\* A float of the run is a quotient of two integers of the model's size; it is
\* kept exact.  0.0 is [num |-> 0, den |-> 1].
Frac(n, d) == [num |-> n, den |-> d]
Zero == Frac(0, 1)
FracGt(a, b) == a.num * b.den > b.num * a.den
FracEq(a, b) == a.num * b.den = b.num * a.den
Abs(n) == IF n < 0 THEN 0 - n ELSE n
\* math.isclose(a, b): abs(a-b) <= rel_tol * max(abs(a), abs(b)) with
\* rel_tol = 1e-09 and abs_tol = 0.0, over the common denominator a.den * b.den.
IsClose(a, b) ==
    LET p == a.num * b.den
        q == b.num * a.den
        diff == Abs(p - q)
        big == IF Abs(p) >= Abs(q) THEN Abs(p) ELSE Abs(q)
    IN diff = 0 \/ big \div diff >= 1000000000

\* ------------------------------------------------------------ criar_faixa
\* (faulty variant: the height ceiling is not checked)
ViaveisSemAltura(lista, dem, Cw, usado, altura_restante) ==
    {i \in Range(lista) : dem[i.id] > 0 /\ i.c <= (Cw - usado)}

\* line 26-29: the items that still have demand and fit the rest of the strip
Viaveis(lista, dem, Cw, usado, altura_restante) ==
    {i \in Range(lista) :
        dem[i.id] > 0 /\ i.c <= (Cw - usado) /\ i.l <= altura_restante}

\* (faulty variant: beta is the smallest area among the viable items)
BetaMin(viaveis) ==
    LET S == {i.area : i \in viaveis}
    IN CHOOSE a \in S : \A b \in S : a <= b

\* line 34-35
Beta(viaveis) == SetMax({i.area : i \in viaveis})

\* (faulty variant: every viable item is a candidate, whatever alpha)
LRCTodos(viaveis, a) == viaveis

\* line 38: i.area >= alpha * beta, alpha = a / AlphaDen
LRC(viaveis, a) == {i \in viaveis : i.area * AlphaDen >= a * Beta(viaveis)}

\* (faulty variant: the width already used by the strip is not subtracted)
QtdMaxTotal(item, Cw, usado) == Cw \div item.c

\* line 44
QtdMax(item, Cw, usado) == (Cw - usado) \div item.c

\* (faulty variant: the run is not capped by the remaining demand)
QtdSemDemanda(item, dem, Cw, usado) == QtdMax(item, Cw, usado)

\* line 45
Qtd(item, dem, Cw, usado) == Min2(dem[item.id], QtdMax(item, Cw, usado))

\* (faulty variant: only the first item of the list is looked at)
AnyDemandPrimeiro(lista, dem) == dem[lista[1].id] > 0

\* line 64 / line 116: any(demanda[i.id] > 0 for i in itens)
AnyDemand(lista, dem) == \E k \in 1..Len(lista) : dem[lista[k].id] > 0

\* total remaining demand of a demand state
Restante(lista, dem) == SeqSum([k \in 1..Len(lista) |-> dem[lista[k].id]])

\* (faulty variant: the height of the strip's first item instead of the largest)
AlturaPrimeiro(fx) == fx[1].item.l

\* line 73
AlturaFaixa(fx) == SetMax({fx[k].item.l : k \in 1..Len(fx)})

\* (faulty variant: the demand is left out of the total area)
AreaSemDemanda(lista) == SeqSum([k \in 1..Len(lista) |-> lista[k].area])

\* line 100
AreaTotalItens(lista) == SeqSum([k \in 1..Len(lista) |-> lista[k].area * lista[k].d])

\* line 111: random.uniform(a, b) returns a + (b-a) * random(), a value between
\* the two ends whichever is larger; the model draws it from the grid.
AlphaGrid == {0 - 5, 0, 5, 8, 10, 15}
Uniform(a, b) ==
    {v \in AlphaGrid : (a <= v /\ v <= b) \/ (b <= v /\ v <= a)}

\* ------------------------------------------------------------ inputs
ItemShapes == (1..MaxDim) \X (1..MaxDim)
\* Catalogs of two items.  Line 108 shuffles the list before every trial, so of
\* the two orders of a pair of items one is generated (the first item is not
\* after the second in the order of (largura, altura, demanda)).
NotAfter(a, b) ==
    \/ a[1] < b[1]
    \/ a[1] = b[1] /\ a[2] < b[2]
    \/ a[1] = b[1] /\ a[2] = b[2] /\ a[3] <= b[3]
ItemData == {<<s[1], s[2], d>> : s \in ItemShapes, d \in 0..MaxDem}
Catalogs ==
    {<<Item(1, p[1][1], p[1][2], p[1][3]), Item(2, p[2][1], p[2][2], p[2][3])>> :
        p \in {q \in ItemData \X ItemData : NotAfter(q[1], q[2])}}
\* <<C, L>>
Plates == {<<3, 2>>}
\* <<alpha_min, alpha_max>>: two valid ranges, one below 0, one above 1, one
\* with alpha_min > alpha_max
AlphaRanges ==
    {<<0, 5>>, <<10, 10>>, <<0 - 5, 0 - 5>>, <<15, 15>>, <<10, 8>>}

\* The end-to-end scenario of the specification (section 8, item 7).
ScenarioItens == <<Item(1, 10, 5, 2), Item(2, 5, 5, 4)>>
ScenarioAlphas == {<<8, 8>>, <<8, 10>>, <<10, 10>>}
IsScenario == itens = ScenarioItens /\ C = 10 /\ L = 10

NoSolution == [none |-> TRUE, placas |-> <<>>]
Some(p) == [none |-> FALSE, placas |-> p]

\* line 95-100: the state of resolver_pcebg before its first trial
Start ==
    /\ it = 0
    /\ demanda = [k \in {} |-> 0]
    /\ itens_iter = <<>>
    /\ alpha_iter = 0
    /\ placas = <<>>
    /\ padrao = <<>>
    /\ y = 0
    /\ faixa = <<>>
    /\ x_usado = 0
    /\ melhor_solucao = NoSolution
    /\ melhor_num_placas = inf
    /\ melhor_aproveitamento = Zero
    /\ pc = "for"
    /\ min_placas = inf
    /\ primeira_min = <<>>
    /\ ultima_troca = 0
    /\ restante_chamada = 0

\* line 84: the calls of resolver_pcebg, with max_iter drawn from `iters` and
\* <<alpha_min, alpha_max>> from `ranges` for the generated catalogs
Chamada(iters, ranges) ==
    \/ /\ itens \in Catalogs
       /\ \E p \in Plates : C = p[1] /\ L = p[2]
       /\ max_iter \in iters
       /\ \E r \in ranges : alpha_min = r[1] /\ alpha_max = r[2]
    \/ /\ itens = ScenarioItens
       /\ C = 10 /\ L = 10
       /\ max_iter \in {20, 21}
       /\ \E r \in ScenarioAlphas : alpha_min = r[1] /\ alpha_max = r[2]

\* max_iter: no iteration (-1, 0), one, and MaxIter
Init == Chamada({0 - 1, 0, 1, MaxIter}, AlphaRanges) /\ Start

args == <<itens, C, L, max_iter, alpha_min, alpha_max>>
melhor == <<melhor_solucao, melhor_num_placas, melhor_aproveitamento>>
hist == <<min_placas, primeira_min, ultima_troca, restante_chamada>>

\* ------------------------------------------------------------ resolver_pcebg
\* (faulty variant: the demand dictionary is built once and shared by the trials)
DemandaCompartilhada(lista) ==
    IF DOMAIN demanda = {}
    THEN [id \in {i.id : i \in Range(lista)} |->
             (CHOOSE i \in Range(lista) : i.id = id).d]
    ELSE demanda

\* line 104: demanda = {i.id: i.demanda_total for i in itens}
DemandaOriginal(lista) ==
    [id \in {i.id : i \in Range(lista)} |->
        (CHOOSE i \in Range(lista) : i.id = id).d]

\* line 102-113: one more iteration of the for loop starts
IniciarIteracao ==
    /\ pc = "for"
    /\ it < max_iter
    /\ demanda' = DemandaOriginal(itens)
    /\ itens_iter' \in Permutations(itens)
    /\ alpha_iter' \in Uniform(alpha_min, alpha_max)
    /\ placas' = <<>>
    /\ pc' = "while"
    /\ UNCHANGED <<args, it, padrao, y, faixa, x_usado, melhor, hist>>

\* line 116-117: demand remains, gerar_padrao is called (line 61-62)
ChamarGerarPadrao ==
    /\ pc = "while"
    /\ AnyDemand(itens_iter, demanda)
    /\ padrao' = <<>>
    /\ y' = 0
    /\ pc' = "padrao"
    /\ restante_chamada' = Restante(itens_iter, demanda)
    /\ UNCHANGED <<args, it, demanda, itens_iter, alpha_iter, placas, faixa,
                   x_usado, melhor, min_placas, primeira_min, ultima_troca>>

\* line 64-66: the plate loop goes on, criar_faixa is called (line 21-22)
ChamarCriarFaixa ==
    /\ pc = "padrao"
    /\ y < L /\ AnyDemand(itens_iter, demanda)
    /\ faixa' = <<>>
    /\ x_usado' = 0
    /\ pc' = "faixa"
    /\ UNCHANGED <<args, it, demanda, itens_iter, alpha_iter, placas, padrao, y,
                   melhor, hist>>

\* line 24-52: one iteration of the strip loop that places a run
ColocarItem ==
    /\ pc = "faixa"
    /\ x_usado < C
    /\ LET viaveis == Viaveis(itens_iter, demanda, C, x_usado, L - y)
       IN /\ viaveis # {}
          /\ \E item \in LRC(viaveis, alpha_iter) :
               LET qtd == Qtd(item, demanda, C, x_usado)
               IN /\ qtd > 0
                  /\ faixa' = Append(faixa, [item |-> item, qtd |-> qtd, x |-> x_usado])
                  /\ demanda' = [demanda EXCEPT ![item.id] = @ - qtd]
                  /\ x_usado' = x_usado + qtd * item.c
    /\ UNCHANGED <<args, it, itens_iter, alpha_iter, placas, padrao, y, melhor,
                   hist, pc>>

\* line 41: random.choice of an empty LRC raises IndexError
EscolhaVazia ==
    /\ pc = "faixa"
    /\ x_usado < C
    /\ LET viaveis == Viaveis(itens_iter, demanda, C, x_usado, L - y)
       IN viaveis # {} /\ LRC(viaveis, alpha_iter) = {}
    /\ pc' = "IndexError"
    /\ UNCHANGED <<args, it, demanda, itens_iter, alpha_iter, placas, padrao, y,
                   faixa, x_usado, melhor, hist>>

\* (faulty variant: the loop may also be left right after a placement)
FaixaTerminaCedo ==
    \/ x_usado >= C
    \/ faixa # <<>>
    \/ Viaveis(itens_iter, demanda, C, x_usado, L - y) = {}

\* line 24, 30-31, 47-48, 54: the strip loop ends and criar_faixa returns
FaixaTermina ==
    /\ x_usado < C =>
         LET viaveis == Viaveis(itens_iter, demanda, C, x_usado, L - y)
         IN \/ viaveis = {}
            \/ \E item \in LRC(viaveis, alpha_iter) :
                  Qtd(item, demanda, C, x_usado) <= 0

RetornarFaixa ==
    /\ pc = "faixa"
    /\ FaixaTermina
    /\ pc' = "faixa_ret"
    /\ UNCHANGED <<args, it, demanda, itens_iter, alpha_iter, placas, padrao, y,
                   faixa, x_usado, melhor, hist>>

\* ------------------------------------------------------------ gerar_padrao
\* (faulty variant: the strip replaces the plate's placements instead of being
\* added to them)
EmpilharFaixaSobrescreve ==
    /\ pc = "faixa_ret"
    /\ faixa # <<>>
    /\ padrao' = [k \in 1..Len(faixa) |->
                    [item |-> faixa[k].item, qtd |-> faixa[k].qtd,
                     x |-> faixa[k].x, y |-> y]]
    /\ y' = y + AlturaFaixa(faixa)
    /\ faixa' = <<>>
    /\ x_usado' = 0
    /\ pc' = "padrao"
    /\ UNCHANGED <<args, it, demanda, itens_iter, alpha_iter, placas, melhor, hist>>

\* line 68-79: a non-empty strip is stacked on the plate
EmpilharFaixa ==
    /\ pc = "faixa_ret"
    /\ faixa # <<>>
    /\ padrao' = padrao \o [k \in 1..Len(faixa) |->
                    [item |-> faixa[k].item, qtd |-> faixa[k].qtd,
                     x |-> faixa[k].x, y |-> y]]
    /\ y' = y + AlturaFaixa(faixa)
    /\ faixa' = <<>>
    /\ x_usado' = 0
    /\ pc' = "padrao"
    /\ UNCHANGED <<args, it, demanda, itens_iter, alpha_iter, placas, melhor, hist>>

\* line 68-70, 81: an empty strip closes the plate
\* line 64, 81: the plate loop ends
RetornarPadrao ==
    /\ \/ pc = "faixa_ret" /\ faixa = <<>>
       \/ pc = "padrao" /\ ~(y < L /\ AnyDemand(itens_iter, demanda))
    /\ faixa' = <<>>
    /\ x_usado' = 0
    /\ pc' = "padrao_ret"
    /\ UNCHANGED <<args, it, demanda, itens_iter, alpha_iter, placas, padrao, y,
                   melhor, hist>>

\* (faulty variant: the test never sees an empty plate)
PadraoNuncaVazio(p) == FALSE

\* line 119: not padrao
PadraoVazio(p) == p = <<>>

\* line 119-122
LevantarInviavel ==
    /\ pc = "padrao_ret"
    /\ PadraoVazio(padrao)
    /\ pc' = "ValueError"
    /\ UNCHANGED <<args, it, demanda, itens_iter, alpha_iter, placas, padrao, y,
                   faixa, x_usado, melhor, hist>>

\* line 124
AnexarPlaca ==
    /\ pc = "padrao_ret"
    /\ ~PadraoVazio(padrao)
    /\ placas' = Append(placas, padrao)
    /\ padrao' = <<>>
    /\ y' = 0
    /\ pc' = "while"
    /\ UNCHANGED <<args, it, demanda, itens_iter, alpha_iter, faixa, x_usado,
                   melhor, hist>>

\* (faulty variant: the area of one plate divides, whatever the plate count)
AproveitamentoSemPlacas(lista, pls, Cw, Lh) ==
    IF Len(pls) > 0 THEN Frac(AreaTotalItens(lista), Cw * Lh) ELSE Zero

\* line 127-128
Aproveitamento(lista, pls, Cw, Lh) ==
    LET area_placas == Len(pls) * Cw * Lh
    IN IF area_placas > 0 THEN Frac(AreaTotalItens(lista), area_placas) ELSE Zero

\* (faulty variant: the initial math.inf is compared as an ordinary number)
MenosPlacasSemInf(n, m) == n < m

\* line 140: len(placas) < melhor_num_placas, melhor_num_placas maybe math.inf
MenosPlacas(n, m) == m = inf \/ n < m

\* (faulty variant: a trial of equal utilization replaces the best)
AceitaEmpate(aprov, n, m_aprov, m_num) ==
    FracGt(aprov, m_aprov) \/ IsClose(aprov, m_aprov)

\* line 138-140
Aceita(aprov, n, m_aprov, m_num) ==
    \/ FracGt(aprov, m_aprov)
    \/ (IsClose(aprov, m_aprov) /\ MenosPlacas(n, m_num))

\* line 116, 126-143: the demand is met; the trial is scored and compared
FimIteracao ==
    /\ pc = "while"
    /\ ~AnyDemand(itens_iter, demanda)
    /\ LET aproveitamento == Aproveitamento(itens, placas, C, L)
       IN IF Aceita(aproveitamento, Len(placas), melhor_aproveitamento,
                    melhor_num_placas)
          THEN /\ melhor_aproveitamento' = aproveitamento
               /\ melhor_num_placas' = Len(placas)
               /\ melhor_solucao' = Some(placas)
               /\ ultima_troca' = it + 1
          ELSE UNCHANGED <<melhor, ultima_troca>>
    /\ IF min_placas = inf \/ Len(placas) < min_placas
       THEN min_placas' = Len(placas) /\ primeira_min' = placas
       ELSE UNCHANGED <<min_placas, primeira_min>>
    /\ UNCHANGED restante_chamada
    /\ it' = it + 1
    /\ pc' = "for"
    /\ UNCHANGED <<args, demanda, itens_iter, alpha_iter, placas, padrao, y,
                   faixa, x_usado>>

\* line 102, 145: the for loop is over
Retornar ==
    /\ pc = "for"
    /\ ~(it < max_iter)
    /\ pc' = "return"
    /\ UNCHANGED <<args, it, demanda, itens_iter, alpha_iter, placas, padrao, y,
                   faixa, x_usado, melhor, hist>>

Next ==
    \/ IniciarIteracao
    \/ ChamarGerarPadrao
    \/ ChamarCriarFaixa
    \/ ColocarItem
    \/ EscolhaVazia
    \/ RetornarFaixa
    \/ EmpilharFaixa
    \/ RetornarPadrao
    \/ LevantarInviavel
    \/ AnexarPlaca
    \/ FimIteracao
    \/ Retornar

Spec == Init /\ [][Next]_vars

\* ------------------------------------------------------------ measures
\* quantity of item `id` placed on one plate / on a list of plates
QtdNoPadrao(p, id) ==
    SeqSum([k \in 1..Len(p) |-> IF p[k].item.id = id THEN p[k].qtd ELSE 0])
QtdNasPlacas(pls, id) == SeqSum([n \in 1..Len(pls) |-> QtdNoPadrao(pls[n], id)])

\* height of the strip of plate p that starts at offset y0: the largest item
\* height among the placements of that strip
AlturaDaFaixaEm(p, y0) == SetMax({p[k].item.l : k \in {j \in 1..Len(p) : p[j].y = y0}})

\* the offsets of the strips of plate p, and the heights of those below y0
Offsets(p) == {p[k].y : k \in 1..Len(p)}
RECURSIVE SomaAlturas(_, _)
SomaAlturas(p, ys) ==
    IF ys = {} THEN 0
    ELSE LET y0 == CHOOSE v \in ys : TRUE
         IN AlturaDaFaixaEm(p, y0) + SomaAlturas(p, ys \ {y0})

\* every plate the run holds: finished plates of the trial, the plate under
\* construction, and the plates of the best solution
TodosPadroes ==
    Range(placas) \cup {padrao} \cup Range(melhor_solucao.placas)

Retornou == pc = "return"
Terminou == pc \in {"return", "ValueError", "IndexError"}

\* ------------------------------------------------------------ C1
\* C1: in every solution returned by resolver_pcebg, for every item, the
\* quantities placed for it over all plates sum to the item's demand exactly.
C1_DemandaAtendida ==
    (Retornou /\ ~melhor_solucao.none) =>
        \A k \in 1..Len(itens) :
            QtdNasPlacas(melhor_solucao.placas, itens[k].id) = itens[k].d

\* a returned solution of at least two plates that places both items
C1_Witness ==
    /\ Retornou /\ ~melhor_solucao.none
    /\ Len(melhor_solucao.placas) >= 2
    /\ \A k \in 1..Len(itens) : itens[k].d > 0

\* ------------------------------------------------------------ C2
\* C2: every placement of every plate lies within the plate: x >= 0,
\* x + qtd * width <= C, y >= 0 and y + (height of its strip) <= L.
DentroDaPlaca(p, k) ==
    /\ p[k].x >= 0
    /\ p[k].x + p[k].qtd * p[k].item.c <= C
    /\ p[k].y >= 0
    /\ p[k].y + AlturaDaFaixaEm(p, p[k].y) <= L

C2_DentroDaPlaca ==
    \A p \in TodosPadroes : \A k \in 1..Len(p) : DentroDaPlaca(p, k)

\* a finished plate with a placement that starts right of and above the origin
C2_Witness ==
    \E n \in 1..Len(placas) : \E k \in 1..Len(placas[n]) :
        placas[n][k].x > 0 /\ placas[n][k].y > 0

\* ------------------------------------------------------------ C3
\* C3: within a plate no two placements overlap: placements of one strip have
\* disjoint x-intervals [x, x + qtd*width), every strip's y-offset is the sum of
\* the heights of the strips below it, and so placements of different strips
\* have disjoint y-intervals.
FimX(q) == q.x + q.qtd * q.item.c
SemSobreposicao(p) ==
    \A j, k \in 1..Len(p) :
        j < k =>
            IF p[j].y = p[k].y
            THEN FimX(p[j]) <= p[k].x \/ FimX(p[k]) <= p[j].x
            ELSE \/ p[j].y + AlturaDaFaixaEm(p, p[j].y) <= p[k].y
                 \/ p[k].y + AlturaDaFaixaEm(p, p[k].y) <= p[j].y
OffsetsCumulativos(p) ==
    \A k \in 1..Len(p) :
        p[k].y = SomaAlturas(p, {v \in Offsets(p) : v < p[k].y})

C3_SemSobreposicao ==
    \A p \in TodosPadroes : SemSobreposicao(p) /\ OffsetsCumulativos(p)

\* a finished plate with two strips, one of them holding two placements
C3_Witness ==
    \E n \in 1..Len(placas) :
        LET p == placas[n]
        IN \E i, j, k \in 1..Len(p) :
              /\ i # j /\ p[i].y = p[j].y
              /\ p[k].y > 0

\* ------------------------------------------------------------ C4
\* The interpreter runs the call to its end: whenever a step is possible, a step
\* is taken.
\* The fair runs are those of max_iter <= 0 and of max_iter = MaxIter (a run of
\* fewer iterations takes the steps of the first iterations of one of these),
\* without the range below 0 (its RCL is that of alpha = 0: every viable item)
\* and without the reversed range (its draws are those of [0.8, 1]).
FairInit ==
    Chamada({0 - 1, 0, MaxIter},
            AlphaRanges \ {<<0 - 5, 0 - 5>>, <<10, 8>>}) /\ Start
FairSpec == FairInit /\ [][Next]_vars /\ WF_vars(Next)

\* one iteration of the strip loop (line 24-52)
PassoFaixa == pc = "faixa" /\ pc' = "faixa"
\* one iteration of the plate loop (line 64-79), seen at lines 68-79
PassoPadrao == pc = "faixa_ret" /\ pc' = "padrao"
\* one iteration of the driver's inner loop (line 116-124) ends
PassoPlaca == pc = "padrao_ret" /\ pc' \in {"while", "ValueError"}

Progresso ==
    /\ PassoFaixa => x_usado' > x_usado
    /\ PassoPadrao => y' > y
    /\ PassoPlaca =>
         \/ pc' = "ValueError"
         \/ Restante(itens_iter, demanda') < restante_chamada

\* C4: every run of resolver_pcebg terminates (returns or raises): each
\* iteration of the strip loop strictly increases the consumed width, each
\* iteration of the plate loop strictly increases y, each iteration of the
\* driver's inner loop strictly decreases the total remaining demand or raises.
C4_Termina == [][Progresso]_vars /\ <>Terminou

\* the second trial of a run has appended its second plate
C4_Witness == it = 1 /\ pc = "while" /\ Len(placas) = 2

\* ------------------------------------------------------------ C5
\* the best solution stored so far places every item's whole demand, and no
\* empty plate is ever part of a plate list
SemSolucaoParcial ==
    /\ ~melhor_solucao.none =>
         \A k \in 1..Len(itens) :
             QtdNasPlacas(melhor_solucao.placas, itens[k].id) = itens[k].d
    /\ \A p \in Range(placas) \cup Range(melhor_solucao.placas) : p # <<>>

\* an empty plate returned while demand remains is followed at once by the
\* error, and nothing follows the error
LevantaDeImediato ==
    /\ (pc = "padrao_ret" /\ padrao = <<>> /\ AnyDemand(itens_iter, demanda))
          => pc' = "ValueError"
    /\ pc # "ValueError"

\* C5: when gerar_padrao returns an empty plate while demand remains,
\* resolver_pcebg raises the infeasibility error at once and returns nothing; a
\* plate list that leaves demand unplaced is never returned and never stored
\* as the best solution.
C5_InviavelLevanta == []SemSolucaoParcial /\ [][LevantaDeImediato]_vars

\* the error is raised after the trial has already finished a plate
C5_Witness == pc = "ValueError" /\ placas # <<>> /\ AnyDemand(itens_iter, demanda)

\* ------------------------------------------------------------ C6
\* the parameters the specification calls invalid (section 7), and an item that
\* cannot fit the plate
ParametrosInvalidos ==
    \/ alpha_min < 0 \/ alpha_min > AlphaDen
    \/ alpha_max < 0 \/ alpha_max > AlphaDen
    \/ alpha_min > alpha_max
    \/ max_iter <= 0

TemItemGrande == \E k \in 1..Len(itens) : itens[k].c > C \/ itens[k].l > L
AntesDasIteracoes == pc = "for" /\ it = 0 /\ DOMAIN demanda = {}

\* C6: when any item (of any demand, 0 included) is wider than C or taller
\* than L, resolver_pcebg reports an invalid-instance error before any trial
\* runs: no demand state is created and nothing is built or placed.
\* (The code has no such check: the statement is violated.)
C6_InstanciaInvalida ==
    (TemItemGrande /\ ~ParametrosInvalidos) => AntesDasIteracoes

\* ------------------------------------------------------------ C7
\* C7: resolver_pcebg reports an invalid-parameters error, and returns no
\* result, when alpha_min or alpha_max is outside [0,1], when
\* alpha_min > alpha_max, or when max_iter <= 0.
\* (The code has no such check: the statement is violated.)
C7_ParametrosInvalidos ==
    (ParametrosInvalidos /\ ~TemItemGrande) => ~Retornou

\* ------------------------------------------------------------ C8
\* the step that ends a trial replaces the best exactly when the trial's
\* utilization is greater, or equal with fewer plates
RegraDeTroca ==
    (pc = "while" /\ pc' = "for") =>
        LET a == Aproveitamento(itens, placas, C, L)
            troca == \/ FracGt(a, melhor_aproveitamento)
                     \/ /\ FracEq(a, melhor_aproveitamento)
                        /\ MenosPlacas(Len(placas), melhor_num_placas)
        IN IF troca
           THEN /\ melhor_solucao' = Some(placas)
                /\ melhor_num_placas' = Len(placas)
                /\ melhor_aproveitamento' = a
                /\ ultima_troca' = it + 1
           ELSE UNCHANGED <<melhor, ultima_troca>>

NuncaPiora == ~FracGt(melhor_aproveitamento, melhor_aproveitamento')

\* once a trial is finished, the best is the plate list of the first trial
\* that had the fewest plates
MelhorEhPrimeiraMinima ==
    it >= 1 =>
        /\ melhor_solucao = Some(primeira_min)
        /\ melhor_num_placas = min_placas
        /\ melhor_num_placas = Len(melhor_solucao.placas)

\* C8: a finished trial replaces the best exactly when its utilization is
\* strictly greater, or equal with strictly fewer plates; so the returned
\* solution is the plate list of the earliest trial with the fewest plates, and
\* the best utilization never decreases.
C8_RegraDeAceitacao ==
    []MelhorEhPrimeiraMinima /\ [][RegraDeTroca /\ NuncaPiora]_vars

\* a run whose second trial replaced the best of its first
C8_Witness == Retornou /\ ultima_troca = 2

\* ------------------------------------------------------------ C9
AreaNoPadrao(p) == SeqSum([k \in 1..Len(p) |-> p[k].qtd * p[k].item.area])
AreaNasPlacas(pls) == SeqSum([n \in 1..Len(pls) |-> AreaNoPadrao(pls[n])])

\* C9: the returned utilization is the one recomputed from the returned plates:
\* placed area / (number of plates * C * L); the placed area is the run-wide
\* sum of area * demand, and the plate count used is the length of the list.
C9_AproveitamentoRecalculado ==
    (Retornou /\ ~melhor_solucao.none) =>
        LET pls == melhor_solucao.placas
        IN /\ melhor_num_placas = Len(pls)
           /\ AreaNasPlacas(pls) = AreaTotalItens(itens)
           /\ Len(pls) > 0 =>
                melhor_aproveitamento.num * (Len(pls) * C * L)
                    = AreaNasPlacas(pls) * melhor_aproveitamento.den

\* a returned solution of two plates or more that wastes part of them
C9_Witness ==
    /\ Retornou /\ ~melhor_solucao.none
    /\ Len(melhor_solucao.placas) >= 2
    /\ melhor_aproveitamento.num < melhor_aproveitamento.den

\* ------------------------------------------------------------ C10
PlacaA == <<[item |-> ScenarioItens[1], qtd |-> 1, x |-> 0, y |-> 0],
            [item |-> ScenarioItens[1], qtd |-> 1, x |-> 0, y |-> 5]>>
PlacaB == <<[item |-> ScenarioItens[2], qtd |-> 2, x |-> 0, y |-> 0],
            [item |-> ScenarioItens[2], qtd |-> 2, x |-> 0, y |-> 5]>>

\* C10: C = L = 10, A = 10 x 5 (demand 2), B = 5 x 5 (demand 4), max_iter >= 20,
\* every alpha in [0.8, 1]: every run returns exactly 2 plates with utilization
\* 1.0, one plate of two strips of one A, one plate of two strips of two B.
C10_Cenario ==
    (IsScenario /\ max_iter >= 20 /\ alpha_min >= 8 /\ alpha_max >= 8
       /\ alpha_min <= AlphaDen /\ alpha_max <= AlphaDen) =>
        /\ ~Terminou \/ Retornou
        /\ Retornou =>
             /\ ~melhor_solucao.none
             /\ Len(melhor_solucao.placas) = 2
             /\ Range(melhor_solucao.placas) = {PlacaA, PlacaB}
             /\ melhor_aproveitamento.num = melhor_aproveitamento.den
             /\ melhor_aproveitamento.num > 0

\* the scenario has returned after 20 trials with alpha drawn from [0.8, 1]
C10_Witness ==
    IsScenario /\ Retornou /\ it = 20 /\ alpha_min = 8 /\ alpha_max = 10

\* ------------------------------------------------------------ C11
DemandaTodaZero == \A k \in 1..Len(itens) : itens[k].d = 0

\* C11: when every item has demand 0 and max_iter >= 1, resolver_pcebg ends by
\* returning (never by the infeasibility error or any other failure), and it
\* returns an empty plate list, not a missing value, with utilization 0; no
\* plate is ever built and the quotient of line 128 is never taken.
C11_DemandaZero ==
    (DemandaTodaZero /\ max_iter >= 1) =>
        /\ ~Terminou \/ Retornou
        /\ placas = <<>> /\ padrao = <<>>
        /\ Aproveitamento(itens, placas, C, L) = Zero
        /\ Retornou =>
             /\ melhor_solucao = Some(<<>>)
             /\ melhor_num_placas = 0
             /\ melhor_aproveitamento = Zero

\* a call with two trials and no demand at all has returned
C11_Witness ==
    /\ DemandaTodaZero /\ Retornou /\ it = 2
    /\ ~melhor_solucao.none /\ melhor_solucao.placas = <<>>

\* ------------------------------------------------------------ C12
\* the claim's notion of a viable item, written out: demand left, fits the
\* width left in the strip, fits the height left in the plate
EhViavel(i) ==
    /\ demanda[i.id] > 0
    /\ i.c <= C - x_usado
    /\ i.l <= L - y
HaViavel == \E k \in 1..Len(itens_iter) : EhViavel(itens_iter[k])

QtdPositiva(p) == \A k \in 1..Len(p) : p[k].qtd >= 1

\* every placement ever appended, wherever it is kept, has qtd >= 1
SemQtdZero ==
    /\ QtdPositiva(faixa)
    /\ \A p \in TodosPadroes : QtdPositiva(p)

\* a call of criar_faixa entered with no viable item does one thing: it
\* returns the empty strip, the demand untouched
FaixaVaziaDeImediato ==
    (pc = "faixa" /\ faixa = <<>> /\ x_usado = 0 /\ ~HaViavel) =>
        /\ pc' = "faixa_ret"
        /\ faixa' = <<>>
        /\ demanda' = demanda

\* and gerar_padrao answers the empty strip by leaving its loop (line 68-70):
\* no further criar_faixa call is made for this plate
LacoParaNaFaixaVazia ==
    (pc = "faixa_ret" /\ faixa = <<>>) =>
        /\ pc' = "padrao_ret"
        /\ padrao' = padrao
        /\ demanda' = demanda

\* C12: criar_faixa never emits a placement of quantity 0; a call of it in a
\* state with no viable item returns the empty strip at once, the demand
\* unchanged, and the gerar_padrao loop stops at that call.
C12_SemQtdZero ==
    []SemQtdZero /\ [][FaixaVaziaDeImediato /\ LacoParaNaFaixaVazia]_vars

\* gerar_padrao has stopped at an empty strip, above a strip it had stacked
C12_Witness ==
    /\ pc = "padrao_ret" /\ padrao # <<>>
    /\ y < L /\ AnyDemand(itens_iter, demanda)

\* ------------------------------------------------------------ C14
\* the returned utilization, an exact quotient with a positive denominator
MaiorQueZero == melhor_aproveitamento.num > 0
NoMaximoUm == melhor_aproveitamento.num <= melhor_aproveitamento.den
DevolveuSolucao == Retornou /\ ~melhor_solucao.none

\* C14 as stated: the utilization returned with any returned solution is in
\* (0, 1]: strictly greater than 0 and never greater than 1.
\* (Violated: the solution of an instance without demand is returned with 0.)
C14_Intervalo ==
    DevolveuSolucao =>
        /\ melhor_aproveitamento.den > 0
        /\ MaiorQueZero
        /\ NoMaximoUm

\* C14, amended: the utilization returned with any returned solution is in
\* [0, 1]; it is 0 exactly when the solution has no plate, which is exactly
\* when every item has demand 0, and it is in (0, 1] otherwise. The placed
\* area never exceeds plate count times plate area.
C14_IntervaloCorrigido ==
    DevolveuSolucao =>
        /\ melhor_aproveitamento.den > 0
        /\ melhor_aproveitamento.num >= 0
        /\ NoMaximoUm
        /\ MaiorQueZero <=> melhor_solucao.placas # <<>>
        /\ MaiorQueZero <=> ~DemandaTodaZero
        /\ AreaNasPlacas(melhor_solucao.placas)
              <= Len(melhor_solucao.placas) * C * L

\* a returned solution that fills every one of its plates: utilization 1
C14_Witness ==
    /\ DevolveuSolucao /\ ~IsScenario
    /\ melhor_solucao.placas # <<>>
    /\ melhor_aproveitamento.num = melhor_aproveitamento.den

\* ------------------------------------------------------------ C15
\* the caller's list: same items, same fields, same order, at every step
CatalogoIntacto == itens' = itens

\* once a trial has started, the shuffled list is a rearrangement of the
\* caller's items; the items kept in placements are the caller's items, field
\* for field
MesmosItens ==
    /\ DOMAIN demanda # {} =>
         /\ Len(itens_iter) = Len(itens)
         /\ Range(itens_iter) = Range(itens)
    /\ \A k \in 1..Len(faixa) : faixa[k].item \in Range(itens)
    /\ \A p \in TodosPadroes :
         \A k \in 1..Len(p) : p[k].item \in Range(itens)

\* the step that opens a trial leaves a demand state equal to the original
\* demand of every item
DemandaRecomeca ==
    (pc = "for" /\ pc' = "while") =>
        /\ DOMAIN demanda' = {itens[k].id : k \in 1..Len(itens)}
        /\ \A k \in 1..Len(itens) : demanda'[itens[k].id] = itens[k].d

\* C15: the item catalog is read-only and the demand state is per trial: no
\* Item field and not the order of the caller's list ever changes, and every
\* trial starts from the original demand of every item, whatever the previous
\* trials placed.
C15_CatalogoSomenteLeitura ==
    []MesmosItens /\ [][CatalogoIntacto /\ DemandaRecomeca]_vars

\* the second trial has just started, on a shuffled order that is not the
\* caller's, with the whole demand again, after the first placed all of it
C15_Witness ==
    /\ it = 1 /\ pc = "while" /\ placas = <<>>
    /\ melhor_solucao.placas # <<>>
    /\ itens_iter # itens
    /\ \A k \in 1..Len(itens) : demanda[itens[k].id] = itens[k].d

\* ------------------------------------------------------------ C16
ItensViaveis == {i \in Range(itens_iter) : EhViavel(i)}
AreaMaxima(S) == CHOOSE a \in {i.area : i \in S} : \A j \in S : j.area <= a

\* a step of criar_faixa that places an item: the item was viable before the
\* step and its area is at least alpha * beta, beta the largest viable area
ColocadoEstavaNaLRC ==
    PassoFaixa =>
        /\ Len(faixa') = Len(faixa) + 1
        /\ LET i == faixa'[Len(faixa')].item
           IN /\ i \in ItensViaveis
              /\ i.area * AlphaDen >= alpha_iter * AreaMaxima(ItensViaveis)
              /\ alpha_iter = AlphaDen => i.area = AreaMaxima(ItensViaveis)

\* with alpha = 0 each viable item is a possible next placement
ComAlphaZeroTodos ==
    (pc = "faixa" /\ alpha_iter = 0) =>
        \A i \in ItensViaveis :
            ENABLED (ColocarItem /\ faixa'[Len(faixa')].item = i)

\* C16: every item criar_faixa places was, when selected, viable (demand left,
\* width <= C - consumed width, height <= height ceiling) and had
\* area >= alpha * beta, beta the maximum area among the viable items; with
\* alpha = 1 it has the maximum area, with alpha = 0 any viable item can be
\* the one selected.
C16_RegraLRC ==
    []ComAlphaZeroTodos /\ [][ColocadoEstavaNaLRC]_vars

\* pure greedy (alpha = 1): the larger item went in first, the smaller one
\* only once the larger was no longer viable
C16_Witness ==
    /\ pc = "faixa" /\ alpha_iter = AlphaDen /\ Len(faixa) = 2
    /\ faixa[1].item.area > faixa[2].item.area

\* ------------------------------------------------------------ C17
\* a step of criar_faixa that places an item, measured on the state before it
CorridaMaxima ==
    PassoFaixa =>
        LET q == faixa'[Len(faixa')]
            i == q.item
            resto == demanda[i.id]
            cabem == (C - x_usado) \div i.c
        IN /\ Len(faixa') = Len(faixa) + 1
           /\ SubSeq(faixa', 1, Len(faixa)) = faixa
           /\ q.qtd = IF resto <= cabem THEN resto ELSE cabem
           /\ q.x = x_usado
           /\ DOMAIN demanda' = DOMAIN demanda
           /\ demanda'[i.id] = resto - q.qtd
           /\ \A id \in DOMAIN demanda \ {i.id} : demanda'[id] = demanda[id]
           /\ x_usado' = x_usado + q.qtd * i.c

\* C17: the quantity placed for a selected item is exactly
\* min(remaining demand, floor((C - consumed width) / width)); the placement
\* starts at the consumed width, that item's demand decreases by exactly the
\* quantity, the consumed width advances by quantity * width, and no other
\* item's demand changes in the step.
C17_CorridaMaxima == [][CorridaMaxima]_vars

\* a second placement of a strip, cut short by the width left: demand of its
\* item remains
C17_Witness ==
    /\ pc = "faixa" /\ Len(faixa) = 2
    /\ faixa[2].x > 0
    /\ demanda[faixa[2].item.id] > 0
    /\ x_usado = faixa[2].x + faixa[2].qtd * faixa[2].item.c

\* ------------------------------------------------------------ C18
\* C18: whenever criar_faixa returns, no item is viable in the final state:
\* no item has demand left, width <= C - consumed width and height <= the
\* height ceiling; the strip is never closed while an item that fits remains.
C18_FaixaSaturada ==
    pc = "faixa_ret" =>
        \A k \in 1..Len(itens_iter) :
            LET i == itens_iter[k]
            IN ~(demanda[i.id] > 0 /\ i.c <= C - x_usado /\ i.l <= L - y)

\* a strip returned with width to spare and demand left: what remains is
\* too wide for the rest of the strip, or too tall for the rest of the plate
C18_Witness ==
    /\ pc = "faixa_ret" /\ faixa # <<>>
    /\ x_usado < C
    /\ AnyDemand(itens_iter, demanda)

\* ------------------------------------------------------------ C19
\* every item that has demand fits the empty plate
CabeTudo ==
    \A k \in 1..Len(itens) :
        itens[k].d > 0 => (itens[k].c <= C /\ itens[k].l <= L)

\* no infeasibility error, and no empty plate is ever returned or kept
SemPlacaVazia ==
    /\ pc # "ValueError"
    /\ pc = "padrao_ret" => padrao # <<>>
    /\ \A n \in 1..Len(placas) : placas[n] # <<>>
    /\ \A n \in 1..Len(melhor_solucao.placas) : melhor_solucao.placas[n] # <<>>

\* the run can end only by the error, in its first trial, with no solution
SoLevantaNaPrimeira ==
    /\ Terminou => pc = "ValueError"
    /\ it = 0
    /\ melhor_solucao.none

\* C19: if every item with positive demand has width <= C and height <= L, no
\* run raises the infeasibility error: every gerar_padrao call made while
\* demand remains returns a non-empty plate, so every plate of every trial
\* holds a placement; conversely, if some item with positive demand is wider
\* than C or taller than L, every run raises the error during the first trial
\* and never returns a solution.
\* (Violated by the runs whose parameters C7 wants rejected: with
\* max_iter <= 0 the run returns without a trial, with alpha > 1 it fails in
\* random.choice.)
C19_Viabilidade ==
    /\ CabeTudo => SemPlacaVazia
    /\ ~CabeTudo => SoLevantaNaPrimeira

\* ------------------------------------------------------------ C20
\* units of an item placed so far in the trial: finished plates, the plate
\* under construction and the strip under construction
ColocadoNaIteracao(id) ==
    QtdNasPlacas(placas, id) + QtdNoPadrao(padrao, id) + QtdNoPadrao(faixa, id)

Conservacao ==
    DOMAIN demanda # {} =>
        \A k \in 1..Len(itens) :
            LET i == itens[k]
            IN /\ 0 <= demanda[i.id]
               /\ demanda[i.id] <= i.d
               /\ demanda[i.id] + ColocadoNaIteracao(i.id) = i.d

\* only the step that opens a trial (from pc = "for") may raise a demand
NaoAumenta ==
    pc # "for" =>
        /\ DOMAIN demanda' = DOMAIN demanda
        /\ \A id \in DOMAIN demanda : demanda'[id] <= demanda[id]

\* C20: in every reachable state of a trial, for every item,
\* 0 <= remaining demand <= original demand, and remaining demand + the units
\* of the item placed so far in the trial (finished plates, plate and strip
\* under construction) = original demand; the remaining demand of an item
\* never increases during a trial.
C20_Conservacao == []Conservacao /\ [][NaoAumenta]_vars

\* a trial with a finished plate, a stacked strip and an open strip
C20_Witness ==
    /\ pc = "faixa"
    /\ placas # <<>> /\ padrao # <<>> /\ faixa # <<>>

====
